---- MODULE Spec2Model ----
(***************************************************************************)
(* A model of dolfin's UFCDofMap (src/dolfin/fem/UFCDofMap.cpp) and of     *)
(* BlockMatrix::str (src/dolfin/la/BlockMatrix.cpp).                       *)
(*                                                                         *)
(* The mesh (dolfin::Mesh) and the element descriptor (ufc::dof_map) are   *)
(* external to the two files: they are modelled by two small triangle      *)
(* meshes and by the dof maps a form compiler generates for a nested mixed *)
(* element  Root = P1 x (CR x DG0).                                        *)
(***************************************************************************)
EXTENDS Integers, Sequences, FiniteSets, TLC

\* Largest number of UFCDofMap objects alive at the same time.
MaxMaps == 2

VARIABLES
  mesh,      \* mesh id -> [ordered, edges]: the dolfin::Mesh objects
  parallel,  \* MPI::num_processes() > 1
  descs,     \* descriptor id -> [node, gdim]: the ufc::dof_map objects
  maps,      \* sequence of the UFCDofMap objects alive
  res,       \* what the last operation returned or raised
  matrices,  \* BlockMatrix: <<m, n>>, the block dimensions
  pc, bi, bj,\* BlockMatrix::str: position and loop counters
  reads      \* BlockMatrix::str: the blocks read so far, in order

dofvars == <<mesh, parallel, descs, maps, res>>
blockvars == <<matrices, pc, bi, bj, reads>>
vars == <<mesh, parallel, descs, maps, res, matrices, pc, bi, bj, reads>>

----------------------------------------------------------------------------
(* dolfin::Mesh: two meshes of triangles.  Mesh 1 has two cells sharing an *)
(* edge, mesh 2 has one cell.                                              *)

MeshIds == {1, 2}

topology_dim(m) == 2

CellVertices(m) ==
  IF m = 1 THEN << <<0, 1, 2>>, <<1, 2, 3>> >> ELSE << <<0, 1, 2>> >>

CellEdges(m) ==
  IF m = 1 THEN << <<0, 1, 2>>, <<0, 3, 4>> >> ELSE << <<0, 1, 2>> >>

\* CellIterator: the cell indices of mesh m, ascending.
Cells(m) == 0 .. (Len(CellVertices(m)) - 1)

\* Mesh::num_entities(d) of mesh m in mesh state ms
num_entities(ms, m, d) ==
  IF d = 0 THEN (IF m = 1 THEN 4 ELSE 3)
  ELSE IF d = 1 THEN (IF ms[m].edges THEN (IF m = 1 THEN 5 ELSE 3) ELSE 0)
  ELSE Len(CellVertices(m))

\* Mesh::init(d): materialise the entities of dimension d
mesh_init(ms, m, d) ==
  IF d = 1 THEN [ms EXCEPT ![m].edges = TRUE] ELSE ms

\* UFCMesh::init(mesh): the per-dimension entity counts, copied
UFCMesh(ms, m) == [d \in 0 .. topology_dim(m) |-> num_entities(ms, m, d)]

\* UFCCell(cell): the entity indices of cell c of mesh m, per dimension
UFCCell(m, c) ==
  [d \in 0 .. topology_dim(m) |->
     IF d = 0 THEN CellVertices(m)[c + 1]
     ELSE IF d = 1 THEN CellEdges(m)[c + 1]
     ELSE <<c>>]

----------------------------------------------------------------------------
(* ufc::dof_map: the descriptors of the nested mixed element.  A node is   *)
(* its path from the root:  <<>> = P1 x (CR x DG0),  <<0>> = P1,           *)
(* <<1>> = CR x DG0,  <<1,0>> = CR (edge dofs),  <<1,1>> = DG0.            *)

Root == <<>>

Nodes == {<<>>, <<0>>, <<1>>, <<1, 0>>, <<1, 1>>}

ufc_num_sub_dof_maps(node) == IF node \in {<<>>, <<1>>} THEN 2 ELSE 0

ufc_create_sub_dof_map(node, i) == Append(node, i)

\* the entity dimension a leaf's dofs live on
LeafDim(node) == IF node = <<0>> THEN 0 ELSE IF node = <<1, 0>> THEN 1 ELSE 2

RECURSIVE ufc_needs_mesh_entities(_, _)
ufc_needs_mesh_entities(node, d) ==
  IF ufc_num_sub_dof_maps(node) = 0 THEN d = LeafDim(node)
  ELSE \E i \in 0 .. (ufc_num_sub_dof_maps(node) - 1) :
         ufc_needs_mesh_entities(ufc_create_sub_dof_map(node, i), d)

\* the global dimension init_mesh(m) computes from the mesh summary m
RECURSIVE ufc_init_mesh(_, _)
ufc_init_mesh(node, m) ==
  IF ufc_num_sub_dof_maps(node) = 0 THEN m[LeafDim(node)]
  ELSE ufc_init_mesh(ufc_create_sub_dof_map(node, 0), m)
       + ufc_init_mesh(ufc_create_sub_dof_map(node, 1), m)

\* whether init_mesh asks for the pass over the cells
RECURSIVE ufc_init_cells(_)
ufc_init_cells(node) ==
  IF ufc_num_sub_dof_maps(node) = 0 THEN node = <<1, 0>>
  ELSE \E i \in 0 .. (ufc_num_sub_dof_maps(node) - 1) :
         ufc_init_cells(ufc_create_sub_dof_map(node, i))

\* ufc::dof_map::tabulate_dofs(dofs, m, c): the sub-elements' dofs, each
\* block shifted by the global dimensions of the blocks before it
RECURSIVE ufc_tabulate_dofs(_, _, _)
ufc_tabulate_dofs(node, m, c) ==
  IF ufc_num_sub_dof_maps(node) = 0 THEN c[LeafDim(node)]
  ELSE LET t0 == ufc_tabulate_dofs(ufc_create_sub_dof_map(node, 0), m, c)
           t1 == ufc_tabulate_dofs(ufc_create_sub_dof_map(node, 1), m, c)
           shift == ufc_init_mesh(ufc_create_sub_dof_map(node, 0), m)
       IN t0 \o [k \in 1 .. Len(t1) |-> t1[k] + shift]

\* ufc::dof_map::local_dimension(c)
ufc_local_dimension(node, c) == Len(ufc_tabulate_dofs(node, [d \in 0 .. 2 |-> 0], c))

----------------------------------------------------------------------------
(* UFCDofMap: the private helpers.                                         *)

NoError == "none"

\* The outcome of an initialisation: the error raised (or none), the
\* dimension the error names, the descriptor calls made, in order, and on
\* success the mesh summary and the descriptor's global dimension.
Outcome(err, dim, calls, ufc_mesh, gdim) ==
  [err |-> err, dim |-> dim, calls |-> calls, ufc_mesh |-> ufc_mesh, gdim |-> gdim]

\* UFCDofMap::init_ufc_mesh
init_ufc_mesh(ms, m) ==
  IF ~ms[m].ordered
    THEN Outcome("OrderingError", -1, <<>>, <<>>, 0)
    ELSE Outcome(NoError, -1, <<>>, UFCMesh(ms, m), 0)

\* UFCDofMap::init_ufc_dofmap, the loop over the dimensions d, d+1, ...:
\* the first dimension that is needed and has no entities, or -1
RECURSIVE check_entities(_, _, _, _, _)
check_entities(node, ms, m, d, calls) ==
  IF d > topology_dim(m) THEN [dim |-> -1, calls |-> calls]
  ELSE IF ufc_needs_mesh_entities(node, d) /\ num_entities(ms, m, d) = 0
    THEN [dim |-> d, calls |-> Append(calls, "needs_mesh_entities")]
    ELSE check_entities(node, ms, m, d + 1, Append(calls, "needs_mesh_entities"))

\* init_ufc_dofmap raising the error only after init_mesh was called
init_ufc_dofmap_late(node, ufc_mesh, ms, m) ==
  LET chk == check_entities(node, ms, m, 0, <<>>) IN
  IF chk.dim >= 0
    THEN Outcome("MissingEntitiesError", chk.dim, chk.calls \o <<"init_mesh">>, ufc_mesh, 0)
    ELSE Outcome(NoError, -1, chk.calls \o <<"init_mesh">>, ufc_mesh, ufc_init_mesh(node, ufc_mesh))

\* UFCDofMap::init_ufc_dofmap
init_ufc_dofmap(node, ufc_mesh, ms, m) ==
  LET chk == check_entities(node, ms, m, 0, <<>>) IN
  IF chk.dim >= 0
    THEN Outcome("MissingEntitiesError", chk.dim, chk.calls, ufc_mesh, 0)
    ELSE LET pass == IF ufc_init_cells(node)
                       THEN [c \in 1 .. Cardinality(Cells(m)) |-> "init_cell"]
                            \o <<"init_cell_finalize">>
                       ELSE <<>>
         IN Outcome(NoError, -1, chk.calls \o <<"init_mesh">> \o pass,
                    ufc_mesh, ufc_init_mesh(node, ufc_mesh))

\* UFCDofMap::init
init(node, ms, m) ==
  LET um == init_ufc_mesh(ms, m) IN
  IF um.err # NoError THEN um
  ELSE init_ufc_dofmap(node, um.ufc_mesh, ms, m)

\* UFCDofMap::UFCDofMap(ufc_dofmap, Mesh&): the loop over d, d+1, ... that
\* generates the mesh entities
RECURSIVE init_entities(_, _, _, _, _)
init_entities(node, par, ms, m, d) ==
  IF d > topology_dim(m) THEN ms
  ELSE init_entities(node, par,
         IF ufc_needs_mesh_entities(node, d) \/ (par /\ d = topology_dim(m) - 1)
           THEN mesh_init(ms, m, d) ELSE ms,
         m, d + 1)

\* the loop over the siblings running one sibling too far (i <= n)
RECURSIVE sibling_offset_inclusive(_, _, _, _, _, _, _)
sibling_offset_inclusive(node, i, n, offset, ufc_mesh, ms, m) ==
  IF i > n THEN Outcome(NoError, -1, <<>>, ufc_mesh, offset)
  ELSE LET r == init_ufc_dofmap(ufc_create_sub_dof_map(node, i), ufc_mesh, ms, m) IN
       IF r.err # NoError THEN r
       ELSE sibling_offset_inclusive(node, i + 1, n, offset + r.gdim, ufc_mesh, ms, m)

\* UFCDofMap::extract_sub_dofmap (static), the loop over the siblings
\* i, i+1, ... before component[0]: each is created and initialised and its
\* global dimension is added to the offset
RECURSIVE sibling_offset(_, _, _, _, _, _, _)
sibling_offset(node, i, n, offset, ufc_mesh, ms, m) ==
  IF i >= n THEN Outcome(NoError, -1, <<>>, ufc_mesh, offset)
  ELSE LET r == init_ufc_dofmap(ufc_create_sub_dof_map(node, i), ufc_mesh, ms, m) IN
       IF r.err # NoError THEN r
       ELSE sibling_offset(node, i + 1, n, offset + r.gdim, ufc_mesh, ms, m)

\* extract_sub_dofmap accepting an index equal to the sub-space count
RECURSIVE extract_sub_dofmap_loose(_, _, _, _, _, _)
extract_sub_dofmap_loose(node, offset, component, ufc_mesh, ms, m) ==
  IF ufc_num_sub_dof_maps(node) = 0
    THEN [err |-> "NoSubspacesError", dim |-> -1, node |-> node, offset |-> offset]
  ELSE IF Len(component) = 0
    THEN [err |-> "NoComponentError", dim |-> -1, node |-> node, offset |-> offset]
  ELSE IF component[1] > ufc_num_sub_dof_maps(node)
    THEN [err |-> "IndexOutOfRangeError", dim |-> -1, node |-> node, offset |-> offset]
  ELSE LET n == IF component[1] < ufc_num_sub_dof_maps(node)
                  THEN component[1] ELSE ufc_num_sub_dof_maps(node) - 1
           acc == sibling_offset(node, 0, n, offset, ufc_mesh, ms, m)
           sub == ufc_create_sub_dof_map(node, n)
       IN IF acc.err # NoError
            THEN [err |-> acc.err, dim |-> acc.dim, node |-> node, offset |-> offset]
          ELSE IF Len(component) = 1
            THEN [err |-> NoError, dim |-> -1, node |-> sub, offset |-> acc.gdim]
          ELSE extract_sub_dofmap_loose(sub, acc.gdim, Tail(component), ufc_mesh, ms, m)

\* UFCDofMap::extract_sub_dofmap (static, recursive): the error raised, or
\* the sub descriptor's node and the offset
RECURSIVE extract_sub_dofmap(_, _, _, _, _, _)
extract_sub_dofmap(node, offset, component, ufc_mesh, ms, m) ==
  IF ufc_num_sub_dof_maps(node) = 0
    THEN [err |-> "NoSubspacesError", dim |-> -1, node |-> node, offset |-> offset]
  ELSE IF Len(component) = 0
    THEN [err |-> "NoComponentError", dim |-> -1, node |-> node, offset |-> offset]
  ELSE IF component[1] >= ufc_num_sub_dof_maps(node)
    THEN [err |-> "IndexOutOfRangeError", dim |-> -1, node |-> node, offset |-> offset]
  ELSE LET acc == sibling_offset(node, 0, component[1], offset, ufc_mesh, ms, m)
           sub == ufc_create_sub_dof_map(node, component[1])
       IN IF acc.err # NoError
            THEN [err |-> acc.err, dim |-> acc.dim, node |-> node, offset |-> offset]
          ELSE IF Len(component) = 1
            THEN [err |-> NoError, dim |-> -1, node |-> sub, offset |-> acc.gdim]
          ELSE extract_sub_dofmap(sub, acc.gdim, Tail(component), ufc_mesh, ms, m)

----------------------------------------------------------------------------
(* UFCDofMap: the objects and their queries.                               *)

NoDesc == [node |-> <<>>, gdim |-> -1]

DescIds == 1 .. MaxMaps

MapIds == 1 .. Len(maps)

\* the descriptor ids some dof map of mp holds
Held(mp) == {mp[i].ufc_dofmap : i \in 1 .. Len(mp)}

\* a descriptor id no dof map holds
FreeId == CHOOSE id \in DescIds : id \notin Held(maps) /\ \A j \in DescIds : j < id => j \in Held(maps)

\* A UFCDofMap object: _ufc_dofmap, _ufc_mesh, _ufc_offset, and, for the
\* properties, how it was made: by which operation (origin), with which
\* component path and mesh, from which map (its node, mesh summary and
\* offset then), through which extractions (steps) from which map that was
\* not itself extracted (base), and its global dimension right after init.
DofMap(id, ufc_mesh, origin, comp, m, from, base, steps, gdim0) ==
  [ufc_dofmap |-> id, ufc_mesh |-> ufc_mesh, ufc_offset |-> 0,
   origin |-> origin, comp |-> comp, mesh |-> m, from |-> from,
   base |-> base, steps |-> steps, gdim0 |-> gdim0]

\* what a dof map made from map keeps of it
Parent(ds, map) ==
  [node |-> ds[map.ufc_dofmap].node, ufc_mesh |-> map.ufc_mesh, ufc_offset |-> map.ufc_offset]

NoParent == [node |-> <<>>, ufc_mesh |-> <<>>, ufc_offset |-> 0]

\* the node of the descriptor a dof map holds
NodeOf(ds, map) == ds[map.ufc_dofmap].node

\* UFCDofMap::global_dimension
global_dimension(ds, map) == ds[map.ufc_dofmap].gdim

\* UFCDofMap::local_dimension
local_dimension(ds, map, ufc_cell) == ufc_local_dimension(NodeOf(ds, map), ufc_cell)

\* tabulate_dofs forgetting the offset
tabulate_dofs_plain(ds, map, ufc_cell) ==
  ufc_tabulate_dofs(ds[map.ufc_dofmap].node, map.ufc_mesh, ufc_cell)

\* UFCDofMap::tabulate_dofs
tabulate_dofs(ds, map, ufc_cell) ==
  LET t == ufc_tabulate_dofs(NodeOf(ds, map), map.ufc_mesh, ufc_cell) IN
  IF map.ufc_offset > 0
    THEN [i \in 1 .. Len(t) |->
            IF i <= local_dimension(ds, map, ufc_cell) THEN t[i] + map.ufc_offset ELSE t[i]]
    ELSE t

\* whether mesh m has the entities the cells of a tabulation by map read
HasEntities(ds, ms, map, m) ==
  \A d \in 0 .. topology_dim(m) :
    ufc_needs_mesh_entities(NodeOf(ds, map), d) => num_entities(ms, m, d) > 0

\* dolfin::Set::insert
Set_insert(s, x) == IF \E k \in 1 .. Len(s) : s[k] = x THEN s ELSE Append(s, x)

\* dolfin::Set::sort
Set_sort(s) == SortSeq(s, LAMBDA a, b : a < b)

\* UFCDofMap::dofs, the inner loop over the positions i, i+1, ... of a cell
RECURSIVE dofs_insert(_, _, _, _)
dofs_insert(dof_list, t, i, n) ==
  IF i > n THEN dof_list
  ELSE dofs_insert(Set_insert(dof_list, t[i]), t, i + 1, n)

\* UFCDofMap::dofs, the loop over the cells c, c+1, ...
RECURSIVE dofs_cells(_, _, _, _, _)
dofs_cells(ds, map, m, c, dof_list) ==
  IF c \notin Cells(m) THEN dof_list
  ELSE dofs_cells(ds, map, m, c + 1,
         dofs_insert(dof_list, tabulate_dofs(ds, map, UFCCell(m, c)), 1,
                     local_dimension(ds, map, UFCCell(m, c))))

\* dofs ignoring the sort flag
dofs_unsorted(ds, map, m, sort) == dofs_cells(ds, map, m, 0, <<>>)

\* UFCDofMap::dofs
dofs(ds, map, m, sort) ==
  LET dof_list == dofs_cells(ds, map, m, 0, <<>>) IN
  IF sort THEN Set_sort(dof_list) ELSE dof_list

\* std::map::operator[] assignment: last write wins
MapPut(t, k, v) == [x \in DOMAIN t \cup {k} |-> IF x = k THEN v ELSE t[x]]

\* the inner loop of collapse storing the collapsed dof instead of the original
RECURSIVE collapse_insert_same(_, _, _, _, _)
collapse_insert_same(collapsed_map, collapsed_dofs, orig_dofs, i, n) ==
  IF i > n THEN collapsed_map
  ELSE collapse_insert_same(MapPut(collapsed_map, collapsed_dofs[i], collapsed_dofs[i]),
                            collapsed_dofs, orig_dofs, i + 1, n)

\* UFCDofMap::collapse, the inner loop over the positions i, i+1, ...
RECURSIVE collapse_insert(_, _, _, _, _)
collapse_insert(collapsed_map, collapsed_dofs, orig_dofs, i, n) ==
  IF i > n THEN collapsed_map
  ELSE collapse_insert(MapPut(collapsed_map, collapsed_dofs[i], orig_dofs[i]),
                       collapsed_dofs, orig_dofs, i + 1, n)

\* UFCDofMap::collapse, the loop over the cells c, c+1, ...
RECURSIVE collapse_cells(_, _, _, _, _, _)
collapse_cells(ds, this, collapsed, m, c, collapsed_map) ==
  IF c \notin Cells(m) THEN collapsed_map
  ELSE collapse_cells(ds, this, collapsed, m, c + 1,
         collapse_insert(collapsed_map,
                         tabulate_dofs(ds, collapsed, UFCCell(m, c)),
                         tabulate_dofs(ds, this, UFCCell(m, c)),
                         1, local_dimension(ds, collapsed, UFCCell(m, c))))

\* std::map::clear
EmptyMap == [x \in {} |-> 0]

\* UFCDofMap::collapse, the table: cleared, then built
collapse_map(ds, this, collapsed, m, collapsed_map) ==
  collapse_cells(ds, this, collapsed, m, 0, EmptyMap)

----------------------------------------------------------------------------
(* UFCDofMap: the operations.                                              *)

\* the component paths extraction is asked for: the empty path, the valid
\* paths, an index equal to the sub-space count at either level, and paths
\* that descend below a leaf
Components ==
  {<<>>, <<0>>, <<1>>, <<2>>, <<0, 0>>, <<1, 0>>, <<1, 1>>, <<1, 2>>, <<1, 0, 0>>, <<1, 1, 0>>}

\* the descriptors a caller constructs a dof map for
CtorNodes == {<<>>, <<0>>}

\* the tables a caller hands to collapse
PriorMaps == {EmptyMap, [x \in {9} |-> 9]}

\* no call is in progress and no result is pending
NoResult == [op |-> "none"]

InitDof ==
  /\ mesh \in {[m \in MeshIds |-> [ordered |-> m = 1 \/ o, edges |-> FALSE]] : o \in BOOLEAN}
  /\ parallel \in BOOLEAN
  /\ descs = [id \in DescIds |-> NoDesc]
  /\ maps = <<>>
  /\ res = NoResult

\* UFCDofMap::UFCDofMap(ufc_dofmap, Mesh&) when generate, and
\* UFCDofMap::UFCDofMap(ufc_dofmap, const Mesh&) otherwise, for a new
\* descriptor of the given node
Construct(node, m, generate) ==
  /\ res = NoResult
  /\ Len(maps) < MaxMaps
  /\ LET ms == IF generate THEN init_entities(node, parallel, mesh, m, 1) ELSE mesh
         r == init(node, ms, m)
         id == FreeId
     IN /\ mesh' = ms
        /\ res' = [op |-> "construct", err |-> r.err, dim |-> r.dim, calls |-> r.calls,
                   node |-> node, mesh |-> m]
        /\ IF r.err = NoError
             THEN /\ descs' = [descs EXCEPT ![id] = [node |-> node, gdim |-> r.gdim]]
                  /\ maps' = Append(maps, DofMap(id, r.ufc_mesh, "construct", <<>>, m, NoParent,
                                              [node |-> node, ufc_mesh |-> r.ufc_mesh], <<>>, r.gdim))
             ELSE UNCHANGED <<descs, maps>>
  /\ UNCHANGED <<parallel, blockvars>>

\* UFCDofMap::extract_sub_dofmap(component, dolfin_mesh) on maps[i]
ExtractSubDofmap(i, component, m) ==
  /\ res = NoResult
  /\ Len(maps) < MaxMaps
  /\ LET this == maps[i]
         x == extract_sub_dofmap(NodeOf(descs, this), 0, component, this.ufc_mesh, mesh, m)
         r == init(x.node, mesh, m)
         id == FreeId
         err == IF x.err # NoError THEN x.err ELSE r.err
         dim == IF x.err # NoError THEN x.dim ELSE r.dim
         sub == [DofMap(id, r.ufc_mesh, "extract", component, m, Parent(descs, this),
                        this.base, Append(this.steps, <<component, m>>), r.gdim)
                   EXCEPT !.ufc_offset = x.offset]
     IN /\ res' = [op |-> "extract", err |-> err, dim |-> dim, before |-> Len(maps),
                   this |-> Parent(descs, this), node |-> x.node, offset |-> x.offset,
                   from |-> i, component |-> component, mesh |-> m]
        /\ IF err = NoError
             THEN /\ descs' = [descs EXCEPT ![id] = [node |-> x.node, gdim |-> r.gdim]]
                  /\ maps' = Append(maps, sub)
             ELSE UNCHANGED <<descs, maps>>
  /\ UNCHANGED <<mesh, parallel, blockvars>>

\* UFCDofMap::collapse(collapsed_map, dolfin_mesh) on maps[i]
Collapse(i, collapsed_map, m) ==
  /\ res = NoResult
  /\ Len(maps) < MaxMaps
  /\ LET this == maps[i]
         id == this.ufc_dofmap
         r == init(NodeOf(descs, this), mesh, m)
         ds == [descs EXCEPT ![id].gdim = r.gdim]
         collapsed == DofMap(id, r.ufc_mesh, "collapse", <<>>, m, Parent(descs, this),
                             [node |-> NodeOf(descs, this), ufc_mesh |-> r.ufc_mesh], <<>>, r.gdim)
     IN IF r.err = NoError
          THEN /\ descs' = ds
               /\ maps' = Append(maps, collapsed)
               /\ res' = [op |-> "collapse", err |-> NoError, from |-> i, mesh |-> m,
                          asserted |-> (global_dimension(ds, collapsed) = global_dimension(ds, this)),
                          collapsed_map |-> collapse_map(ds, this, collapsed, m, collapsed_map)]
          ELSE /\ res' = [op |-> "collapse", err |-> r.err, from |-> i, mesh |-> m,
                          asserted |-> TRUE, collapsed_map |-> collapsed_map]
               /\ UNCHANGED <<descs, maps>>
  /\ UNCHANGED <<mesh, parallel, blockvars>>

\* UFCDofMap::tabulate_dofs(dofs, cell) on maps[i], for cell c of mesh m
TabulateDofs(i, m, c) ==
  /\ res = NoResult
  /\ HasEntities(descs, mesh, maps[i], m)
  /\ res' = [op |-> "tabulate_dofs", map |-> i, mesh |-> m, cell |-> c,
             dofs |-> tabulate_dofs(descs, maps[i], UFCCell(m, c))]
  /\ UNCHANGED <<mesh, parallel, descs, maps, blockvars>>

\* UFCDofMap::dofs(mesh, sort) on maps[i]
Dofs(i, m, sort) ==
  /\ res = NoResult
  /\ HasEntities(descs, mesh, maps[i], m)
  /\ res' = [op |-> "dofs", map |-> i, mesh |-> m, sort |-> sort,
             dof_list |-> dofs(descs, maps[i], m, sort)]
  /\ UNCHANGED <<mesh, parallel, descs, maps, blockvars>>

\* the caller takes the result (or the error) of the last call
Return ==
  /\ res # NoResult
  /\ res' = NoResult
  /\ UNCHANGED <<mesh, parallel, descs, maps, blockvars>>

\* the sequence s without its i-th element
Remove(s, i) == [k \in 1 .. (Len(s) - 1) |-> IF k < i THEN s[k] ELSE s[k + 1]]

\* UFCDofMap::~UFCDofMap on maps[i]: the descriptor goes with its last holder
Destroy(i) ==
  /\ res = NoResult
  /\ maps' = Remove(maps, i)
  /\ descs' = [id \in DescIds |-> IF id \in Held(maps') THEN descs[id] ELSE NoDesc]
  /\ res' = NoResult
  /\ UNCHANGED <<mesh, parallel, blockvars>>

----------------------------------------------------------------------------
(* BlockMatrix: the constructor and str.                                   *)

\* Largest number of block rows and of block columns.
MaxBlocks == 3

\* How far past the last column str's inner loop is followed.
MaxOverrun == 2

NoBlocks ==
  /\ matrices = <<0, 0>>
  /\ pc = "none"
  /\ bi = 0
  /\ bj = 0
  /\ reads = <<>>

\* BlockMatrix::BlockMatrix(m, n)
InitBlock ==
  /\ matrices \in (1 .. MaxBlocks) \X (1 .. MaxBlocks)
  /\ pc = "idle"
  /\ bi = 0
  /\ bj = 0
  /\ reads = <<>>

\* matrices.size() and matrices[0].size()
Rows == matrices[1]
Cols == matrices[2]

\* BlockMatrix::str(verbose) is called
StrCall(verbose) ==
  /\ pc = "idle"
  /\ pc' = IF verbose THEN "outer" ELSE "done"
  /\ bi' = 0
  /\ bj' = 0
  /\ reads' = <<>>
  /\ UNCHANGED <<matrices, dofvars>>

\* the outer loop's test, i < matrices.size(), and the inner loop's j = 0
StrOuter ==
  /\ pc = "outer"
  /\ IF bi < Rows THEN pc' = "inner" /\ bj' = 0 ELSE pc' = "done" /\ bj' = bj
  /\ UNCHANGED <<matrices, bi, reads, dofvars>>

\* the inner loop's test
StrInnerTest == bi < Cols

\* the inner loop's test and, when it fails, the outer loop's i++
StrInner ==
  /\ pc = "inner"
  /\ IF StrInnerTest THEN pc' = "body" /\ bi' = bi ELSE pc' = "outer" /\ bi' = bi + 1
  /\ UNCHANGED <<matrices, bj, reads, dofvars>>

\* the inner loop's body, reading matrices[i][j], and its j++.  A read past
\* the row's last block is undefined: the call may crash there or go on.
StrBody ==
  /\ pc = "body"
  /\ bj < Cols + MaxOverrun
  /\ reads' = Append(reads, <<bi, bj>>)
  /\ bj' = bj + 1
  /\ \/ pc' = "inner"
     \/ bj >= Cols /\ pc' = "crashed"
  /\ UNCHANGED <<matrices, bi, dofvars>>

\* str has returned
StrReturn ==
  /\ pc = "done"
  /\ pc' = "idle"
  /\ UNCHANGED <<matrices, bi, bj, reads, dofvars>>

BlockNext ==
  \/ \E verbose \in BOOLEAN : StrCall(verbose)
  \/ StrOuter
  \/ StrInner
  \/ StrBody
  \/ StrReturn

----------------------------------------------------------------------------
Init == InitDof /\ NoBlocks

Next ==
  \/ \E node \in CtorNodes, m \in MeshIds, generate \in BOOLEAN : Construct(node, m, generate)
  \/ \E i \in MapIds, component \in Components, m \in MeshIds : ExtractSubDofmap(i, component, m)
  \/ \E i \in MapIds, collapsed_map \in PriorMaps, m \in MeshIds : Collapse(i, collapsed_map, m)
  \/ \E i \in MapIds, m \in MeshIds : \E c \in Cells(m) : TabulateDofs(i, m, c)
  \/ \E i \in MapIds, m \in MeshIds, sort \in BOOLEAN : Dofs(i, m, sort)
  \/ \E i \in MapIds : Destroy(i)
  \/ Return

Spec == Init /\ [][Next]_vars

NoMaps ==
  /\ mesh = [m \in MeshIds |-> [ordered |-> TRUE, edges |-> FALSE]]
  /\ parallel = FALSE
  /\ descs = [id \in DescIds |-> NoDesc]
  /\ maps = <<>>
  /\ res = NoResult

BlockInit == InitBlock /\ NoMaps

SpecBlock == BlockInit /\ [][BlockNext]_vars

----------------------------------------------------------------------------
(* Properties.                                                             *)

\* the elements of a sequence
Range(s) == {s[k] : k \in 1 .. Len(s)}

RECURSIVE SumOver(_, _)
SumOver(S, f) ==
  IF S = {} THEN 0
  ELSE LET x == CHOOSE y \in S : TRUE IN f[x] + SumOver(S \ {x}, f)

\* the node the first l indices of comp lead to from node
Descend(node, comp, l) == node \o SubSeq(comp, 1, l)

\* the siblings before the selected sub-space, at every level of comp:
\* <<l, j>> is sub-space j of the node reached after l - 1 indices
SiblingsBefore(comp, L) ==
  {lj \in (1 .. L) \X (0 .. 2) : lj[2] < comp[lj[1]]}

\* the sum, over the levels of comp, of the global dimensions of the
\* siblings before the selected sub-space, each initialised with ufc_mesh
ExpectedOffset(node, comp, ufc_mesh) ==
  SumOver(SiblingsBefore(comp, Len(comp)),
          [lj \in SiblingsBefore(comp, Len(comp)) |->
             ufc_init_mesh(Append(Descend(node, comp, lj[1] - 1), lj[2]), ufc_mesh)])

\* the dofs map tabulates at cell c of mesh m
TabAt(map, m, c) == tabulate_dofs(descs, map, UFCCell(m, c))

\* the dofs map tabulates over all the cells of mesh m
AllDofs(map, m) == UNION {Range(TabAt(map, m, c)) : c \in Cells(m)}

\* C1: extracting a two-level path directly gives the same offset and the
\* same dofs, for every cell, as extracting its first index and then its
\* second index from the result (all with the same mesh).
C1_ExtractionAssociative ==
  \A i \in MapIds :
    LET b == maps[i] IN
    (/\ b.origin = "extract"
     /\ Len(b.steps) = 2
     /\ b.steps[1][2] = b.steps[2][2]
     /\ b.base.ufc_mesh = b.ufc_mesh)
    => LET m == b.mesh
           direct == extract_sub_dofmap(b.base.node, 0, b.steps[1][1] \o b.steps[2][1],
                                        b.base.ufc_mesh, mesh, m)
           a == [b EXCEPT !.ufc_offset = direct.offset]
       IN /\ direct.err = NoError
          /\ direct.node = NodeOf(descs, b)
          /\ b.ufc_offset = direct.offset
          /\ \A c \in Cells(m) : TabAt(b, m, c) = TabAt(a, m, c)

\* C2: the offset of a sub dof map extracted from a zero-offset map is the
\* sum, over the levels of the path, of the global dimensions of the
\* sub-spaces before the selected one.
C2_OffsetAdditive ==
  \A i \in MapIds :
    LET b == maps[i] IN
    (b.origin = "extract" /\ b.from.ufc_offset = 0)
    => b.ufc_offset = ExpectedOffset(b.from.node, b.comp, b.from.ufc_mesh)

C2_Witness ==
  \E i \in MapIds :
    /\ maps[i].origin = "extract"
    /\ maps[i].from.ufc_offset = 0
    /\ maps[i].comp = <<1, 1>>
    /\ maps[i].ufc_offset > ufc_init_mesh(<<0>>, maps[i].from.ufc_mesh)

\* C3: the global dimension of a dof map is the one it had right after its
\* init, whatever operations followed.
C3_GlobalDimensionFixed ==
  \A i \in MapIds : global_dimension(descs, maps[i]) = maps[i].gdim0

\* C4: after collapse, the table takes every dof the collapsed map
\* tabulates, at every cell and position, to the dof the original map
\* tabulates there.
C4_CollapseRoundTrip ==
  (res.op = "collapse" /\ res.err = NoError)
  => LET this == maps[res.from]
         collapsed == maps[Len(maps)]
     IN \A c \in Cells(res.mesh) :
          \A k \in 1 .. local_dimension(descs, collapsed, UFCCell(res.mesh, c)) :
            /\ TabAt(collapsed, res.mesh, c)[k] \in DOMAIN res.collapsed_map
            /\ res.collapsed_map[TabAt(collapsed, res.mesh, c)[k]] = TabAt(this, res.mesh, c)[k]

C4_Witness ==
  /\ res.op = "collapse"
  /\ res.err = NoError
  /\ maps[res.from].ufc_offset > 0
  /\ Cardinality(Cells(res.mesh)) > 1
  /\ \E d \in DOMAIN res.collapsed_map : res.collapsed_map[d] # d

\* C5: every index tabulate_dofs returns is the descriptor's index at that
\* position plus the offset, and only extracted maps have a nonzero offset.
C5_OffsetAdded ==
  /\ res.op = "tabulate_dofs"
     => LET map == maps[res.map]
            t == ufc_tabulate_dofs(NodeOf(descs, map), map.ufc_mesh, UFCCell(res.mesh, res.cell))
        IN /\ Len(res.dofs) = Len(t)
           /\ \A k \in 1 .. Len(t) : res.dofs[k] = t[k] + map.ufc_offset
  /\ \A i \in MapIds : maps[i].ufc_offset # 0 => maps[i].origin = "extract"

C5_Witness ==
  /\ res.op = "tabulate_dofs"
  /\ maps[res.map].ufc_offset > 0
  /\ Len(res.dofs) > 0

\* C6: the table collapse returns has exactly the collapsed map's dofs as
\* keys and takes each key d to d plus the original map's offset; what the
\* table held before is gone.
C6_TranslationTable ==
  (res.op = "collapse" /\ res.err = NoError)
  => LET this == maps[res.from]
         collapsed == maps[Len(maps)]
     IN res.collapsed_map =
          [d \in AllDofs(collapsed, res.mesh) |-> d + this.ufc_offset]

\* the first level of comp at which extraction from node is refused:
\* the node there is a leaf, the path has ended, or the index is too large
BadLevel(node, comp) ==
  CHOOSE l \in 1 .. (Len(comp) + 1) :
    /\ \/ ufc_num_sub_dof_maps(Descend(node, comp, l - 1)) = 0
       \/ l > Len(comp)
       \/ comp[l] >= ufc_num_sub_dof_maps(Descend(node, comp, l - 1))
    /\ \A k \in 1 .. (l - 1) :
         /\ ufc_num_sub_dof_maps(Descend(node, comp, k - 1)) # 0
         /\ comp[k] < ufc_num_sub_dof_maps(Descend(node, comp, k - 1))

\* whether comp is a path to a sub-space of node
ValidPath(node, comp) ==
  /\ Len(comp) > 0
  /\ \A l \in 1 .. Len(comp) : comp[l] < ufc_num_sub_dof_maps(Descend(node, comp, l - 1))

\* the error an invalid path is refused with
PathError(node, comp) ==
  LET l == BadLevel(node, comp) IN
  IF ufc_num_sub_dof_maps(Descend(node, comp, l - 1)) = 0 THEN "NoSubspacesError"
  ELSE IF l > Len(comp) THEN "NoComponentError"
  ELSE "IndexOutOfRangeError"

\* whether mesh m has the entities of every sibling initialised before
\* level L of comp is reached
SiblingsInitialise(node, comp, L, m) ==
  \A lj \in SiblingsBefore(comp, L) :
    \A d \in 0 .. topology_dim(m) :
      ufc_needs_mesh_entities(Append(Descend(node, comp, lj[1] - 1), lj[2]), d)
        => num_entities(mesh, m, d) > 0

\* C7: an invalid extraction request fails, with NoSubspacesError at a
\* level without sub-spaces and IndexOutOfRangeError at a level whose index
\* is not below the sub-space count; it makes no dof map and leaves the map
\* it was called on as it was.
C7_InvalidExtractionFails ==
  res.op = "extract"
  => /\ ~ValidPath(res.this.node, res.component)
        => res.err = PathError(res.this.node, res.component)
     /\ res.err # NoError => Len(maps) = res.before
     /\ Parent(descs, maps[res.from]) = res.this

\* C7, amended: as C7, except that the request fails with
\* MissingEntitiesError when the mesh lacks the entities of a sibling that
\* is initialised before the offending level is reached.
C7_InvalidExtractionFailsInOrder ==
  res.op = "extract"
  => /\ ~ValidPath(res.this.node, res.component)
        => LET l == BadLevel(res.this.node, res.component) IN
           res.err = IF SiblingsInitialise(res.this.node, res.component, l - 1, res.mesh)
                       THEN PathError(res.this.node, res.component)
                       ELSE "MissingEntitiesError"
     /\ res.err # NoError => Len(maps) = res.before
     /\ Parent(descs, maps[res.from]) = res.this

C7_Witness ==
  /\ res.op = "extract"
  /\ res.err = "IndexOutOfRangeError"
  /\ res.component = <<1, 2>>
  /\ Len(maps) = res.before

\* the calls a descriptor gets when it is initialised
InitCalls == {"init_mesh", "init_cell", "init_cell_finalize"}

\* C8: constructing a dof map on an unordered mesh fails with OrderingError
\* before any entity check; on an ordered mesh that lacks the entities of a
\* dimension the descriptor needs it fails with MissingEntitiesError naming
\* such a dimension, and the descriptor is never initialised.
C8_InitErrors ==
  res.op = "construct"
  => /\ ~mesh[res.mesh].ordered => res.err = "OrderingError" /\ res.calls = <<>>
     /\ (/\ mesh[res.mesh].ordered
         /\ \E d \in 0 .. topology_dim(res.mesh) :
              ufc_needs_mesh_entities(res.node, d) /\ num_entities(mesh, res.mesh, d) = 0)
        => /\ res.err = "MissingEntitiesError"
           /\ ufc_needs_mesh_entities(res.node, res.dim)
           /\ num_entities(mesh, res.mesh, res.dim) = 0
           /\ Range(res.calls) \cap InitCalls = {}

C8_Witness ==
  /\ res.op = "construct"
  /\ res.err = "MissingEntitiesError"
  /\ res.dim = 1
  /\ mesh[res.mesh].ordered

\* C9: dofs returns, without duplicates, exactly the dofs the map tabulates
\* over the cells of the mesh, and in strictly ascending order when sorted.
C9_Dofs ==
  res.op = "dofs"
  => /\ Range(res.dof_list) = AllDofs(maps[res.map], res.mesh)
     /\ \A j, k \in 1 .. Len(res.dof_list) : j # k => res.dof_list[j] # res.dof_list[k]
     /\ res.sort => \A j, k \in 1 .. Len(res.dof_list) : j < k => res.dof_list[j] < res.dof_list[k]

C9_Witness ==
  /\ res.op = "dofs"
  /\ res.sort
  /\ maps[res.map].ufc_offset > 0
  /\ res.dof_list # dofs(descs, maps[res.map], res.mesh, FALSE)

\* the blocks of the matrix in row-major order
RowMajor == [k \in 1 .. (Rows * Cols) |-> <<(k - 1) \div Cols, (k - 1) % Cols>>]

\* C10: str(verbose) reads no block outside the matrix, and when it is done
\* it has read every block once, in row-major order.
C10_StrVisitsEachBlock ==
  /\ \A k \in 1 .. Len(reads) : reads[k][1] < Rows /\ reads[k][2] < Cols
  /\ pc # "crashed"
  /\ (pc = "done" /\ bi > 0) => reads = RowMajor

====
